---- MODULE Spec2Model ----
(***************************************************************************)
(* Regional Price Renderer (src/regional-pricing.js): one browser session  *)
(* made of successive page loads sharing sessionStorage.                   *)
(*                                                                         *)
(* JavaScript numbers are modelled as records [nan, v]: v is an integer in *)
(* a fixed-point unit stated at each use, nan marks NaN.  Arithmetic is    *)
(* exact; strings are sequences of one-character strings (markup tags are  *)
(* single tokens).                                                         *)
(***************************************************************************)
EXTENDS Integers, Sequences, FiniteSets, TLC

(* ------------------------------ bounds --------------------------------- *)
\* discount percentages are represented in units of 1/PctRes percent
PctRes == 100
\* largest percentage (in percent) fed to calculatePrices in CalcSpec
MaxPct == 100
\* number of clock advances in one session
MaxTicks == 3

(* --------------------------- configuration ----------------------------- *)
BASE_PRICE_MONTHLY == 19
\* ANNUAL_DISCOUNT = 0.8, kept as tenths
ANNUAL_DISCOUNT == 8
CACHE_DURATION_MS == 60 * 60 * 1000

\* denominator of `multiplier`: discountPercent / 100 in units of 1/PctRes
MultDen == 100 * PctRes
\* denominator of annualRaw: monthlyRaw * 12 * (ANNUAL_DISCOUNT / 10)
AnnualDen == MultDen * 10

(* ------------------------- numbers and strings ------------------------- *)
Num(x) == [nan |-> FALSE, v |-> x]
NaN == [nan |-> TRUE, v |-> 0]

\* Math.floor of the rational n / d (d > 0)
MathFloor(n, d) == n \div d
\* Math.round of the rational n / d (d > 0): floor(n/d + 1/2)
MathRound(n, d) == (2 * n + d) \div (2 * d)

DigitChar(d) ==
    CASE d = 0 -> "0" [] d = 1 -> "1" [] d = 2 -> "2" [] d = 3 -> "3"
      [] d = 4 -> "4" [] d = 5 -> "5" [] d = 6 -> "6" [] d = 7 -> "7"
      [] d = 8 -> "8" [] d = 9 -> "9"

DigitVal(c) ==
    CASE c = "0" -> 0 [] c = "1" -> 1 [] c = "2" -> 2 [] c = "3" -> 3
      [] c = "4" -> 4 [] c = "5" -> 5 [] c = "6" -> 6 [] c = "7" -> 7
      [] c = "8" -> 8 [] c = "9" -> 9

Digits == {"0", "1", "2", "3", "4", "5", "6", "7", "8", "9"}

RECURSIVE NatToString(_)
NatToString(n) ==
    IF n < 10 THEN <<DigitChar(n)>>
    ELSE NatToString(n \div 10) \o <<DigitChar(n % 10)>>

\* Number.prototype.toString for an integer-valued number or NaN
toString(x) ==
    IF x.nan THEN <<"N", "a", "N">>
    ELSE IF x.v < 0 THEN <<"-">> \o NatToString(-x.v)
    ELSE NatToString(x.v)

\* String.prototype.padStart(len, ch)
RECURSIVE padStart(_, _, _)
padStart(s, len, ch) ==
    IF Len(s) >= len THEN s ELSE padStart(<<ch>> \o s, len, ch)

\* parseInt(s, 10): optional sign, then the leading run of decimal digits
RECURSIVE ParseDigits(_, _, _)
ParseDigits(s, i, acc) ==
    IF i > Len(s) \/ s[i] \notin Digits THEN acc
    ELSE ParseDigits(s, i + 1, 10 * acc + DigitVal(s[i]))

parseInt(s) ==
    IF Len(s) >= 1 /\ s[1] = "-"
    THEN (IF Len(s) >= 2 /\ s[2] \in Digits THEN Num(-ParseDigits(s, 2, 0)) ELSE NaN)
    ELSE (IF Len(s) >= 1 /\ s[1] \in Digits THEN Num(ParseDigits(s, 1, 0)) ELSE NaN)

(* ---------------------------- price calculator ------------------------- *)
\* variant: the annual price is derived from the floored monthly price
calculatePrices_flooredMonthly(discountPercent) ==
    IF discountPercent.nan
    THEN [monthly |-> NaN, monthlyCents |-> padStart(toString(NaN), 2, "0"),
          annual |-> NaN, annualCents |-> padStart(toString(NaN), 2, "0"),
          discountPercent |-> discountPercent]
    ELSE LET multiplier == MultDen - discountPercent.v
             monthlyRaw == BASE_PRICE_MONTHLY * multiplier
             monthlyInt == MathFloor(monthlyRaw, MultDen)
             monthlyCents == MathRound((monthlyRaw - monthlyInt * MultDen) * 100, MultDen)
             annualRaw == monthlyInt * 12 * ANNUAL_DISCOUNT
             annualInt == MathFloor(annualRaw, 10)
             annualCents == MathRound((annualRaw - annualInt * 10) * 100, 10)
         IN  [monthly |-> Num(monthlyInt),
              monthlyCents |-> padStart(toString(Num(monthlyCents)), 2, "0"),
              annual |-> Num(annualInt),
              annualCents |-> padStart(toString(Num(annualCents)), 2, "0"),
              discountPercent |-> discountPercent]

\* variant: the annual price is twelve monthly prices, ANNUAL_DISCOUNT left out
calculatePrices_noAnnualDiscount(discountPercent) ==
    IF discountPercent.nan
    THEN [monthly |-> NaN, monthlyCents |-> padStart(toString(NaN), 2, "0"),
          annual |-> NaN, annualCents |-> padStart(toString(NaN), 2, "0"),
          discountPercent |-> discountPercent]
    ELSE LET multiplier == MultDen - discountPercent.v
             monthlyRaw == BASE_PRICE_MONTHLY * multiplier
             annualRaw == monthlyRaw * 12
             monthlyInt == MathFloor(monthlyRaw, MultDen)
             monthlyCents == MathRound((monthlyRaw - monthlyInt * MultDen) * 100, MultDen)
             annualInt == MathFloor(annualRaw, MultDen)
             annualCents == MathRound((annualRaw - annualInt * MultDen) * 100, MultDen)
         IN  [monthly |-> Num(monthlyInt),
              monthlyCents |-> padStart(toString(Num(monthlyCents)), 2, "0"),
              annual |-> Num(annualInt),
              annualCents |-> padStart(toString(Num(annualCents)), 2, "0"),
              discountPercent |-> discountPercent]

\* discountPercent: a number in units of 1/PctRes percent, or NaN
calculatePrices(discountPercent) ==
    IF discountPercent.nan
    THEN [monthly |-> NaN, monthlyCents |-> padStart(toString(NaN), 2, "0"),
          annual |-> NaN, annualCents |-> padStart(toString(NaN), 2, "0"),
          discountPercent |-> discountPercent]
    ELSE LET multiplier == MultDen - discountPercent.v
             monthlyRaw == BASE_PRICE_MONTHLY * multiplier
             annualRaw == monthlyRaw * 12 * ANNUAL_DISCOUNT
             monthlyInt == MathFloor(monthlyRaw, MultDen)
             monthlyCents == MathRound((monthlyRaw - monthlyInt * MultDen) * 100, MultDen)
             annualInt == MathFloor(annualRaw, AnnualDen)
             annualCents == MathRound((annualRaw - annualInt * AnnualDen) * 100, AnnualDen)
         IN  [monthly |-> Num(monthlyInt),
              monthlyCents |-> padStart(toString(Num(monthlyCents)), 2, "0"),
              annual |-> Num(annualInt),
              annualCents |-> padStart(toString(Num(annualCents)), 2, "0"),
              discountPercent |-> discountPercent]

\* value of `prices` before calculatePrices has run in a page load
NoPrices ==
    [monthly |-> NaN, monthlyCents |-> <<>>, annual |-> NaN, annualCents |-> <<>>,
     discountPercent |-> NaN]

formatPriceWithCents(integer, cents) ==
    IF cents = <<"0", "0">> THEN toString(integer)
    ELSE toString(integer) \o <<"<span class=\"cents\">">> \o cents \o <<"</span>">>

formatPriceText(integer, cents) ==
    IF cents = <<"0", "0">> THEN <<"$">> \o toString(integer)
    ELSE <<"$">> \o toString(integer) \o <<".">> \o cents

(* --------------------------- discount response ------------------------- *)
\* The discountPercentage field of a response: kind "missing" (absent, null
\* or empty), "num" (a JSON number v), "str" (a string that parseFloat reads
\* as v) or "junk" (any other truthy value); v in units of 1/PctRes percent.
Field(kind, v) == [kind |-> kind, v |-> v]

DiscountFields ==
    {Field("missing", 0), Field("num", 0), Field("num", 50 * PctRes),
     Field("str", 50 * PctRes), Field("junk", 0),
     Field("num", 150 * PctRes), Field("num", -50 * PctRes)}

FlagSets ==
    {<<FALSE, FALSE, FALSE>>, <<TRUE, FALSE, FALSE>>, <<FALSE, TRUE, FALSE>>,
     <<FALSE, FALSE, TRUE>>, <<TRUE, TRUE, TRUE>>}

Response(f, flags) ==
    [present |-> TRUE, discountPercentage |-> f,
     isVpn |-> flags[1], isProxy |-> flags[2], isTor |-> flags[3]]

\* the truthy JSON bodies the endpoint may answer with
Responses == {Response(f, flags) : f \in DiscountFields, flags \in FlagSets}

\* null: no discount data
NoData ==
    [present |-> FALSE, discountPercentage |-> Field("missing", 0),
     isVpn |-> FALSE, isProxy |-> FALSE, isTor |-> FALSE]

\* JavaScript truthiness of a discountPercentage value
Truthy(f) == f.kind \in {"str", "junk"} \/ (f.kind = "num" /\ f.v # 0)

\* parseFloat(x || 0)
parseFloat(f) ==
    IF ~Truthy(f) THEN Num(0)
    ELSE IF f.kind \in {"num", "str"} THEN Num(f.v) ELSE NaN

BoolChar(b) == IF b THEN "t" ELSE "f"

\* JSON.stringify of a response
JSONstringify(d) ==
    <<"{", d.discountPercentage.kind, ":">> \o toString(Num(d.discountPercentage.v))
      \o <<",", BoolChar(d.isVpn), BoolChar(d.isProxy), BoolChar(d.isTor), "}">>

\* JSON.parse: [ok |-> FALSE] stands for a thrown SyntaxError
JSONparse(s) ==
    LET n == Len(s)
        wellFormed ==
            /\ n >= 9
            /\ s[1] = "{" /\ s[3] = ":" /\ s[n] = "}" /\ s[n - 4] = ","
            /\ s[2] \in {"missing", "num", "str", "junk"}
            /\ \A i \in (n - 3)..(n - 1) : s[i] \in {"t", "f"}
            /\ ~parseInt(SubSeq(s, 4, n - 5)).nan
    IN  IF ~wellFormed THEN [ok |-> FALSE, value |-> NoData]
        ELSE [ok |-> TRUE,
              value |-> [present |-> TRUE,
                         discountPercentage |-> Field(s[2], parseInt(SubSeq(s, 4, n - 5)).v),
                         isVpn |-> s[n - 3] = "t", isProxy |-> s[n - 2] = "t",
                         isTor |-> s[n - 1] = "t"]]

\* outcomes of the one network request
FetchOutcomes == {"networkError", "badStatus", "badBody", "nullBody", "ok"}

\* variant: response.ok is not looked at, the body of an error answer is used
fetchParityDealsDiscount_noStatusCheck(outcome, body) ==
    IF outcome \in {"ok", "badStatus"} THEN body ELSE NoData

\* the value fetchParityDealsDiscount resolves to
fetchParityDealsDiscount(outcome, body) ==
    IF outcome = "ok" THEN body ELSE NoData

(* ------------------------------- caching ------------------------------- *)
\* a sessionStorage slot: getItem gives null when has is FALSE
Item(s) == [has |-> TRUE, s |-> s]
NoItem == [has |-> FALSE, s |-> <<>>]
EmptyStorage == [parity_deals_discount |-> NoItem, parity_deals_timestamp |-> NoItem]

\* variant: only the response is stored, the timestamp key is left as it was
cacheDiscountData_noTimestamp(store, available, d, t) ==
    IF ~available THEN store
    ELSE [parity_deals_discount |-> Item(JSONstringify(d)),
          parity_deals_timestamp |-> store.parity_deals_timestamp]

cacheDiscountData(store, available, d, t) ==
    IF ~available THEN store
    ELSE [parity_deals_discount |-> Item(JSONstringify(d)),
          parity_deals_timestamp |-> Item(toString(Num(t)))]

\* variant: an entry aged exactly CACHE_DURATION_MS still counts as fresh
getCachedDiscountData_inclusive(store, available, t) ==
    LET d == store.parity_deals_discount
        ts == store.parity_deals_timestamp
        found == available /\ d.has /\ d.s # <<>> /\ ts.has /\ ts.s # <<>>
        stamp == parseInt(ts.s)
        age == IF found /\ ~stamp.nan THEN Num(t - stamp.v) ELSE NaN
        parsed == JSONparse(d.s)
    IN  [entry |-> found, age |-> age, threw |-> FALSE,
         value |-> IF found /\ ~age.nan /\ age.v <= CACHE_DURATION_MS /\ parsed.ok
                   THEN parsed.value ELSE NoData]

\* variant: no try/catch, the SecurityError of an unavailable sessionStorage
\* leaves the function
getCachedDiscountData_noCatch(store, available, t) ==
    LET d == store.parity_deals_discount
        ts == store.parity_deals_timestamp
        found == available /\ d.has /\ d.s # <<>> /\ ts.has /\ ts.s # <<>>
        stamp == parseInt(ts.s)
        age == IF found /\ ~stamp.nan THEN Num(t - stamp.v) ELSE NaN
        parsed == JSONparse(d.s)
    IN  [entry |-> found, age |-> age, threw |-> ~available \/ (found /\ ~parsed.ok),
         value |-> IF found /\ ~age.nan /\ age.v < CACHE_DURATION_MS /\ parsed.ok
                   THEN parsed.value ELSE NoData]

\* result of getCachedDiscountData together with what it read: entry says
\* both keys were found, age is the local `age` (NaN when not computed),
\* threw says an exception left the function (the try/catch lets none out)
getCachedDiscountData(store, available, t) ==
    LET d == store.parity_deals_discount
        ts == store.parity_deals_timestamp
        found == available /\ d.has /\ d.s # <<>> /\ ts.has /\ ts.s # <<>>
        stamp == parseInt(ts.s)
        age == IF found /\ ~stamp.nan THEN Num(t - stamp.v) ELSE NaN
        parsed == JSONparse(d.s)
    IN  [entry |-> found, age |-> age, threw |-> FALSE,
         value |-> IF found /\ ~age.nan /\ age.v < CACHE_DURATION_MS /\ parsed.ok
                   THEN parsed.value ELSE NoData]

NoRead == [entry |-> FALSE, age |-> NaN, threw |-> FALSE, value |-> NoData]

(* ------------------------- visibility and display ---------------------- *)
\* the style element #regional-pricing-hide: "absent", "hidden" or "shown"
hidePrices(style) == IF style # "absent" THEN style ELSE "hidden"

showPrices(style) == IF style # "absent" THEN "shown" ELSE style

\* the price texts of the featured card as served in the HTML
StaticDom == [amount |-> <<"1", "9">>, annual |-> <<"$", "1", "8", "2">>]

updatePriceDisplay(prices, d, page) ==
    [amount |-> formatPriceWithCents(prices.monthly, prices.monthlyCents),
     annual |-> formatPriceText(prices.annual, prices.annualCents)]

\* showRegionalBanner: TRUE when a banner is in the page afterwards
showRegionalBanner(d, prices, present) ==
    IF ~Truthy(d.discountPercentage) \/ parseFloat(d.discountPercentage) = Num(0)
    THEN present ELSE TRUE

\* variant: the Tor flag is not looked at
determineDiscount_ignoreTor(d) ==
    IF d.isVpn \/ d.isProxy THEN Num(0)
    ELSE parseFloat(d.discountPercentage)

\* discount percentage chosen by init from a response
determineDiscount(d) ==
    IF d.isVpn \/ d.isProxy \/ d.isTor THEN Num(0)
    ELSE parseFloat(d.discountPercentage)

\* variant: init passes the raw response to showRegionalBanner
initBanner_callsBanner(d, prices, present) == showRegionalBanner(d, prices, present)

\* what init does about the banner once prices are computed: it never
\* calls showRegionalBanner
initBanner(d, prices, present) == present

(* ---------------------- structured data (JSON-LD) ---------------------- *)
\* largest number of JSON-LD blocks in a document, and of offers in a block
MaxBlocks == 2
MaxOffers == 2

\* an offer: its name as a sequence of words (<<>>: no name) and its price
Offer(name, price) == [name |-> name, price |-> price]

OfferNames ==
    {<<"PLUS", "Monthly">>, <<"PLUS", "Yearly">>, <<"Monthly", "or", "Yearly">>,
     <<"FREE">>, <<>>}

Offers == {Offer(n, <<"1", "9">>) : n \in OfferNames}

\* String.prototype.includes, on words
Includes(name, word) == \E i \in 1..Len(name) : name[i] = word

SeqsUpTo(S, n) == UNION {[1..k -> S] : k \in 0..n}

\* a script block: parses says JSON.parse accepts its text, hasOffers that the
\* parsed object has an offers array, text whether the block still holds the
\* served text or the output of JSON.stringify
ScriptBlock(parses, hasOffers, offers) ==
    [parses |-> parses, hasOffers |-> hasOffers, offers |-> offers, text |-> "served"]

ScriptBlocks ==
    {ScriptBlock(FALSE, FALSE, <<>>), ScriptBlock(TRUE, FALSE, <<>>)}
        \cup {ScriptBlock(TRUE, TRUE, os) : os \in SeqsUpTo(Offers, MaxOffers)}

\* the documents the session navigates through carry no block, or a block that
\* does not parse followed by a product block with both offers
PageSchemas ==
    {<<>>,
     <<ScriptBlock(FALSE, FALSE, <<>>),
       ScriptBlock(TRUE, TRUE, <<Offer(<<"PLUS", "Monthly">>, <<"1", "9">>),
                                 Offer(<<"PLUS", "Yearly">>, <<"1", "8", "2">>)>>)>>}

\* the body of schema.offers.forEach
patchOffer(prices, offer) ==
    IF offer.name # <<>> /\ Includes(offer.name, "Monthly")
    THEN [offer EXCEPT !.price = toString(prices.monthly)]
    ELSE IF offer.name # <<>> /\ Includes(offer.name, "Yearly")
    THEN [offer EXCEPT !.price = toString(prices.annual)]
    ELSE offer

offerMatches(offer) ==
    offer.name # <<>> /\ (Includes(offer.name, "Monthly") \/ Includes(offer.name, "Yearly"))

\* the body of schemaScripts.forEach: try { ... } catch (e) {}
patchScript(prices, script) ==
    IF ~script.parses \/ ~script.hasOffers THEN script
    ELSE IF \E j \in 1..Len(script.offers) : offerMatches(script.offers[j])
    THEN [script EXCEPT !.offers = [j \in 1..Len(script.offers) |->
                                      patchOffer(prices, script.offers[j])],
                        !.text = "stringified"]
    ELSE script

\* variant: no try/catch, the first block that does not parse ends the loop
updateSchemaOrg_abortOnError(prices, scripts) ==
    [i \in 1..Len(scripts) |->
        IF \E k \in 1..i : ~scripts[k].parses THEN scripts[i]
        ELSE patchScript(prices, scripts[i])]

updateSchemaOrg(prices, scripts) ==
    [i \in 1..Len(scripts) |-> patchScript(prices, scripts[i])]

(* ------------------ build-time schema patcher (patchFile) -------------- *)
\* An HTML file is a sequence of tokens: "<s>" is the opening tag
\* <script type="application/ld+json">, "</s>" is </script>, the first token
\* of a block's content tells what JSON.parse makes of it, every other token
\* is one more character of text.
MaxSegments == 3
MaxSchemas == 2

OpenTag == "<s>"
CloseTag == "</s>"

\* first content token of a block: an object with @type A or B, with @graph,
\* with both, with neither, or text that is not JSON
LdHead(type, graph) ==
    CASE type = "A" /\ ~graph -> "{A}"
      [] type = "B" /\ ~graph -> "{B}"
      [] type = "A" /\ graph -> "{GA}"
      [] type = "B" /\ graph -> "{GB}"
      [] type = "" /\ graph -> "{G}"
      [] OTHER -> "{}"

LdHeads == {"{A}", "{B}", "{GA}", "{GB}", "{G}", "{}"}

\* JSON.parse of a block's content, leading whitespace skipped
RECURSIVE LdParse(_)
LdParse(content) ==
    IF content = <<>> THEN [ok |-> FALSE, type |-> "", graph |-> FALSE]
    ELSE IF content[1] = "nl" THEN LdParse(Tail(content))
    ELSE IF content[1] \notin LdHeads THEN [ok |-> FALSE, type |-> "", graph |-> FALSE]
    ELSE [ok |-> TRUE,
          type |-> IF content[1] \in {"{A}", "{GA}"} THEN "A"
                   ELSE IF content[1] \in {"{B}", "{GB}"} THEN "B" ELSE "",
          graph |-> content[1] \in {"{G}", "{GA}", "{GB}"}]

\* a schema of the schema file; tag tells translated schemas apart
Schema(type, graph, tag) == [type |-> type, graph |-> graph, tag |-> tag]

Schemas ==
    {Schema(t, g, k) : t \in {"A", "B", ""}, g \in BOOLEAN, k \in {"t1", "t2"}}

\* JSON.stringify(replacement, null, 4), re-indented
LdStringify(schema) ==
    <<"nl", LdHead(schema.type, schema.graph), schema.tag, schema.tag, "nl">>

\* the pieces an HTML file is made of
HtmlSegments ==
    {<<"a">>,
     <<OpenTag, "{A}", CloseTag>>,
     <<OpenTag, "{B}", "x", CloseTag>>,
     <<OpenTag, "{G}", "x", "x", CloseTag>>,
     <<OpenTag, "{GA}", CloseTag>>,
     <<OpenTag, "{}", "x", CloseTag>>,
     <<OpenTag, "!", "x", CloseTag>>}

RECURSIVE Flatten(_)
Flatten(segs) == IF segs = <<>> THEN <<>> ELSE Head(segs) \o Flatten(Tail(segs))

HtmlFiles == {Flatten(segs) : segs \in SeqsUpTo(HtmlSegments, MaxSegments)}

\* position of the first tok at or after from, 0 when there is none
RECURSIVE IndexOf(_, _, _)
IndexOf(html, tok, from) ==
    IF from > Len(html) THEN 0
    ELSE IF html[from] = tok THEN from
    ELSE IndexOf(html, tok, from + 1)

\* regex.exec loop; index is zero-based as in JavaScript
RECURSIVE ExtractFrom(_, _)
ExtractFrom(html, from) ==
    LET open == IndexOf(html, OpenTag, from)
        close == IF open = 0 THEN 0 ELSE IndexOf(html, CloseTag, open + 1)
    IN  IF open = 0 \/ close = 0 THEN <<>>
        ELSE <<[fullMatch |-> SubSeq(html, open, close),
                content |-> SubSeq(html, open + 1, close - 1),
                index |-> open - 1]>> \o ExtractFrom(html, close + 1)

extractJsonLdBlocks(html) == ExtractFrom(html, 1)

\* String.prototype.substring
substring(str, start, end) == SubSeq(str, start + 1, end)

\* graphSchema after schemas.forEach: the last schema with @graph
RECURSIVE graphSchemaOf(_, _)
graphSchemaOf(schemas, n) ==
    IF n = 0 THEN [found |-> FALSE, schema |-> Schema("", FALSE, "t1")]
    ELSE IF schemas[n].graph THEN [found |-> TRUE, schema |-> schemas[n]]
    ELSE graphSchemaOf(schemas, n - 1)

\* schemaMap[type] after schemas.forEach: the last schema without @graph
\* that has this @type
RECURSIVE schemaMapOf(_, _, _)
schemaMapOf(schemas, n, type) ==
    IF n = 0 \/ type = "" THEN [found |-> FALSE, schema |-> Schema("", FALSE, "t1")]
    ELSE IF ~schemas[n].graph /\ schemas[n].type = type
    THEN [found |-> TRUE, schema |-> schemas[n]]
    ELSE schemaMapOf(schemas, n - 1, type)

\* the replacement chosen for one block
replacementFor(content, schemas) ==
    LET parsed == LdParse(content)
        graphSchema == graphSchemaOf(schemas, Len(schemas))
    IN  IF ~parsed.ok THEN [found |-> FALSE, schema |-> Schema("", FALSE, "t1")]
        ELSE IF parsed.graph /\ graphSchema.found THEN graphSchema
        ELSE schemaMapOf(schemas, Len(schemas), parsed.type)

replaceBlock(html, block, schema) ==
    substring(html, 0, block.index)
        \o <<OpenTag>> \o LdStringify(schema) \o <<CloseTag>>
        \o substring(html, block.index + Len(block.fullMatch), Len(html))

\* variant: the blocks are replaced first to last, with the indices found
\* before any replacement
RECURSIVE patchLoop_ascending(_, _, _, _, _)
patchLoop_ascending(html, blocks, schemas, i, patched) ==
    IF i = 0 THEN [html |-> html, patched |-> patched]
    ELSE LET k == Len(blocks) + 1 - i
             r == replacementFor(blocks[k].content, schemas)
         IN  IF r.found
             THEN patchLoop_ascending(replaceBlock(html, blocks[k], r.schema), blocks,
                                      schemas, i - 1, TRUE)
             ELSE patchLoop_ascending(html, blocks, schemas, i - 1, patched)

\* the loop of patchFile: for (i = blocks.length - 1; i >= 0; i--), i one-based
RECURSIVE patchLoop(_, _, _, _, _)
patchLoop(html, blocks, schemas, i, patched) ==
    IF i = 0 THEN [html |-> html, patched |-> patched]
    ELSE LET r == replacementFor(blocks[i].content, schemas)
         IN  IF r.found
             THEN patchLoop(replaceBlock(html, blocks[i], r.schema), blocks, schemas,
                            i - 1, TRUE)
             ELSE patchLoop(html, blocks, schemas, i - 1, patched)

\* patchFile: what the file holds afterwards, and the returned value
patchFile(exists, html, schemas) ==
    IF ~exists THEN [html |-> html, patched |-> FALSE]
    ELSE LET blocks == extractJsonLdBlocks(html)
         IN  patchLoop(html, blocks, schemas, Len(blocks), FALSE)

(* ------------------------ demo carousel (carousel.js) ------------------ *)
\* most cards in the track when only paging is explored, and when hovering
\* and the lightbox are explored too
MaxCards == 4
MaxGifCards == 2
\* most pending timers of one kind
MaxTimers == 1

cardsPerViewDesktop == 3
cardsPerViewMobile == 1
breakpoint == 768

\* window.innerWidth takes the two values around the breakpoint
Widths == {breakpoint, breakpoint + 1}

\* Math.ceil(a / b) for a >= 0, b > 0
MathCeil(a, b) == (a + b - 1) \div b

cardsPerViewFor(width) ==
    IF width > breakpoint THEN cardsPerViewDesktop ELSE cardsPerViewMobile

\* the script has been evaluated in a window of this width over a track of
\* n cards, init has not run; a GIF URL is the number of its card, 0 is ''
CarLoaded(width, n) ==
    [pc |-> "loading",
     state |-> [currentIndex |-> 0, cardsPerView |-> cardsPerViewFor(width),
                totalCards |-> 0, totalPages |-> 0, sectionVisible |-> FALSE,
                loadedGifs |-> {}],
     prevDisabled |-> FALSE, nextDisabled |-> FALSE,
     transform |-> 0,
     gifSrc |-> [c \in 1..n |-> 0],
     gifOpacity |-> [c \in 1..n |-> ""],
     stillOpacity |-> [c \in 1..n |-> ""],
     restartTimers |-> [c \in 1..n |-> 0],
     resizeTimeout |-> FALSE,
     lightbox |-> [active |-> FALSE, src |-> 0],
     bodyOverflow |-> "",
     clearTimers |-> 0]

updateButtonStates(car) ==
    [car EXCEPT !.prevDisabled = (car.state.currentIndex = 0),
                !.nextDisabled = (car.state.currentIndex = car.state.totalPages - 1)]

\* moveToPage; cards[0] is undefined in an empty track and the call throws
moveToPage(car, pageIndex) ==
    updateButtonStates([car EXCEPT !.transform = car.state.cardsPerView * pageIndex])

goToPrevPage(car) ==
    IF car.state.currentIndex > 0
    THEN LET moved == [car EXCEPT !.state.currentIndex = @ - 1]
         IN  moveToPage(moved, moved.state.currentIndex)
    ELSE car

goToNextPage(car) ==
    IF car.state.currentIndex < car.state.totalPages - 1
    THEN LET moved == [car EXCEPT !.state.currentIndex = @ + 1]
         IN  moveToPage(moved, moved.state.currentIndex)
    ELSE car

\* init, when the required elements are there
carInit(car, n) ==
    updateButtonStates(
        [car EXCEPT !.pc = "ready",
                    !.state.totalCards = n,
                    !.state.totalPages = MathCeil(n, car.state.cardsPerView)])

loadGif(car, c) ==
    IF c \in car.state.loadedGifs THEN car
    ELSE [car EXCEPT !.gifSrc[c] = c,
                     !.state.loadedGifs = @ \cup {c}]

\* one-based numbers of the cards of cards.slice(startIndex, endIndex)
getVisibleCards(car) ==
    LET startIndex == car.state.currentIndex * car.state.cardsPerView
        sum == startIndex + car.state.cardsPerView
        endIndex == IF sum < car.state.totalCards THEN sum ELSE car.state.totalCards
    IN  (startIndex + 1)..endIndex

showGif(car, c) ==
    [car EXCEPT !.gifOpacity[c] = "1", !.stillOpacity[c] = "0"]

RECURSIVE autoplayCards(_, _, _)
autoplayCards(car, todo, gifs) ==
    IF todo = {} THEN car
    ELSE LET c == CHOOSE x \in todo : \A y \in todo : x <= y
         IN  autoplayCards(IF c \in gifs THEN showGif(loadGif(car, c), c) ELSE car,
                           todo \ {c}, gifs)

\* gifs: the cards that carry a data-gif URL
autoplayVisibleGifs(car, gifs) == autoplayCards(car, getVisibleCards(car), gifs)

handleSectionVisibility(car, isIntersecting, width, gifs) ==
    IF isIntersecting /\ ~car.state.sectionVisible
    THEN LET seen == [car EXCEPT !.state.sectionVisible = TRUE]
         IN  IF width <= breakpoint THEN autoplayVisibleGifs(seen, gifs) ELSE seen
    ELSE car

\* variant: the page index survives a change of cardsPerView
handleResize_keepIndex(car, width, gifs) ==
    LET newCardsPerView == cardsPerViewFor(width)
    IN  IF newCardsPerView # car.state.cardsPerView
        THEN LET reset == [car EXCEPT !.state.cardsPerView = newCardsPerView,
                                      !.state.totalPages =
                                          MathCeil(car.state.totalCards, newCardsPerView)]
                 moved == moveToPage(reset, 0)
             IN  IF car.state.totalCards = 0 THEN reset
                 ELSE IF width <= breakpoint /\ moved.state.sectionVisible
                 THEN autoplayVisibleGifs(moved, gifs)
                 ELSE moved
        ELSE car

handleResize(car, width, gifs) ==
    LET newCardsPerView == cardsPerViewFor(width)
    IN  IF newCardsPerView # car.state.cardsPerView
        THEN LET reset == [car EXCEPT !.state.cardsPerView = newCardsPerView,
                                      !.state.totalPages =
                                          MathCeil(car.state.totalCards, newCardsPerView),
                                      !.state.currentIndex = 0]
                 moved == moveToPage(reset, 0)
             IN  IF car.state.totalCards = 0 THEN reset
                 ELSE IF width <= breakpoint /\ moved.state.sectionVisible
                 THEN autoplayVisibleGifs(moved, gifs)
                 ELSE moved
        ELSE car

\* variant: mouseenter does not look at sectionVisible
onMouseEnter_unguarded(car, c) ==
    IF c \in car.state.loadedGifs
    THEN [car EXCEPT !.gifSrc[c] = 0, !.restartTimers[c] = @ + 1]
    ELSE showGif(loadGif(car, c), c)

\* the mouseenter listener of a card with a GIF
onMouseEnter(car, c) ==
    IF car.state.sectionVisible
    THEN IF c \in car.state.loadedGifs
         THEN [car EXCEPT !.gifSrc[c] = 0, !.restartTimers[c] = @ + 1]
         ELSE showGif(loadGif(car, c), c)
    ELSE car

\* the callback of the 10 ms timer set by mouseenter
onRestartTimer(car, c) ==
    showGif([car EXCEPT !.gifSrc[c] = c, !.restartTimers[c] = @ - 1], c)

\* the mouseleave listener
onMouseLeave(car, c) ==
    [car EXCEPT !.gifOpacity[c] = "0", !.stillOpacity[c] = "1"]

openLightbox(car, gifUrl) ==
    [car EXCEPT !.lightbox = [active |-> TRUE, src |-> gifUrl],
                !.bodyOverflow = "hidden"]

closeLightbox(car) ==
    [car EXCEPT !.lightbox.active = FALSE,
                !.bodyOverflow = "",
                !.clearTimers = @ + 1]

\* the callback of the 200 ms timer set by closeLightbox
onClearTimer(car) ==
    [car EXCEPT !.lightbox.src = 0, !.clearTimers = @ - 1]

\* the click listener of a card's media
onMediaClick(car, c) ==
    IF car.state.sectionVisible THEN openLightbox(car, c) ELSE car

(* ------------------------------- state --------------------------------- *)
VARIABLES
    pc,               \* phase of the current page load
    phases,           \* phases the current page load has gone through
    pending,          \* the network request is in flight
    hasPricingContent,\* the document matches the pricing selectors
    styleEl,          \* state of the style element #regional-pricing-hide
    storage,          \* sessionStorage (survives navigation)
    storageAvailable, \* FALSE: every sessionStorage access throws
    now,              \* Date.now(), in milliseconds
    ticks,            \* clock advances so far
    data,             \* init's `data`
    cacheRead,        \* what getCachedDiscountData saw in this page load
    fetches,          \* network requests issued in this page load
    discountPercent,  \* init's `discountPercent`
    prices,           \* init's `prices` (the PriceQuote)
    dom,              \* price texts shown by the featured card
    banner,           \* a .regional-pricing-banner is in the page
    fetchOutcome,     \* how the request of this page load settled ("none" before)
    schemaScripts,    \* the JSON-LD script blocks of the document
    fileExists,       \* patcher: the HTML file of dist/ exists
    fileHtml,         \* patcher: content of the HTML file
    schemaFile,       \* patcher: the schemas read from the schema file
    patchPc,          \* patcher: "ready" before patchFile, "done" after
    fileWrites,       \* patcher: calls of fs.writeFileSync
    patchResult,      \* patcher: value returned by patchFile
    car,              \* carousel: the script's state and the DOM it writes
    innerWidth,       \* carousel: window.innerWidth
    trackCards,       \* carousel: number of children of .carousel-track
    gifCards,         \* carousel: the cards whose GIF has a data-gif URL
    hasElements,      \* carousel: track, buttons and #demo are in the page
    hovered,          \* carousel: the card under the mouse, 0 for none
    leftCards,        \* carousel: cards the mouse left and has not re-entered
    clicked           \* carousel: the card whose media was clicked last, 0 for none

\* state of the regional price renderer
priceVars ==
    <<pc, phases, pending, hasPricingContent, styleEl, storage, storageAvailable,
      now, ticks, data, cacheRead, fetches, discountPercent, prices, dom, banner,
      fetchOutcome, schemaScripts>>

\* state of the other scripts of the repository
patchVars == <<fileExists, fileHtml, schemaFile, patchPc, fileWrites, patchResult>>

\* state of the demo carousel
carVars ==
    <<car, innerWidth, trackCards, gifCards, hasElements, hovered, leftCards, clicked>>

otherVars == <<patchVars, carVars>>

vars == <<priceVars, otherVars>>

\* the patcher is not running
PatchIdle ==
    /\ fileExists = FALSE
    /\ fileHtml = <<>>
    /\ schemaFile = <<>>
    /\ patchPc = "off"
    /\ fileWrites = 0
    /\ patchResult = FALSE

\* the carousel script is not in the page
CarIdle ==
    /\ car = [CarLoaded(breakpoint, 0) EXCEPT !.pc = "off"]
    /\ innerWidth = breakpoint
    /\ trackCards = 0
    /\ gifCards = {}
    /\ hasElements = FALSE
    /\ hovered = 0
    /\ leftCards = {}
    /\ clicked = 0

\* the other scripts have not run
OtherIdle == PatchIdle /\ CarIdle

Init ==
    /\ pc = "Idle"
    /\ phases = <<"Idle">>
    /\ pending = FALSE
    /\ hasPricingContent \in BOOLEAN
    /\ styleEl \in {"absent", "hidden"}
    /\ storage = EmptyStorage
    /\ storageAvailable \in BOOLEAN
    /\ now = 0
    /\ ticks = 0
    /\ data = NoData
    /\ cacheRead = NoRead
    /\ fetches = 0
    /\ discountPercent = Num(0)
    /\ prices = NoPrices
    /\ dom = StaticDom
    /\ banner = FALSE
    /\ fetchOutcome = "none"
    /\ schemaScripts \in PageSchemas
    /\ OtherIdle

Enter(phase) ==
    /\ pc' = phase
    /\ phases' = Append(phases, phase)

\* init, up to hidePrices(): the script runs in a freshly loaded document
Start ==
    /\ pc = "Idle"
    /\ IF hasPricingContent
       THEN /\ styleEl' = hidePrices(styleEl)
            /\ Enter("Hiding")
       ELSE /\ Enter("Skipped")
            /\ UNCHANGED styleEl
    /\ UNCHANGED <<pending, hasPricingContent, storage, storageAvailable, now, ticks,
                   data, cacheRead, fetches, discountPercent, prices, dom, banner>>
    /\ UNCHANGED <<fetchOutcome, schemaScripts, otherVars>>

\* init: getCachedDiscountData(), and the fetch is issued on a miss
CheckCache ==
    /\ pc = "Hiding"
    /\ LET r == getCachedDiscountData(storage, storageAvailable, now)
       IN  /\ cacheRead' = r
           /\ IF r.threw
              THEN \* init has no handler: its promise rejects and the run ends
                   /\ Enter("Failed")
                   /\ UNCHANGED <<data, pending, fetches>>
              ELSE /\ data' = r.value
                   /\ pending' = ~r.value.present
                   /\ fetches' = IF r.value.present THEN fetches ELSE fetches + 1
                   /\ Enter("Resolving")
    /\ UNCHANGED <<hasPricingContent, styleEl, storage, storageAvailable, now, ticks,
                   discountPercent, prices, dom, banner>>
    /\ UNCHANGED <<fetchOutcome, schemaScripts, otherVars>>

\* init resumes after await fetchParityDealsDiscount(); a response is cached
FetchSettle ==
    /\ pc = "Resolving" /\ pending
    /\ \E o \in FetchOutcomes, body \in Responses :
          LET d == fetchParityDealsDiscount(o, body)
          IN  /\ fetchOutcome' = o
              /\ data' = d
              /\ storage' = IF d.present
                            THEN cacheDiscountData(storage, storageAvailable, d, now)
                            ELSE storage
    /\ pending' = FALSE
    /\ UNCHANGED <<pc, phases, hasPricingContent, styleEl, storageAvailable, now, ticks,
                   cacheRead, fetches, discountPercent, prices, dom, banner>>
    /\ UNCHANGED <<schemaScripts, otherVars>>

\* variant: a request that produced no data is issued once more
NoDataReveal_retry ==
    /\ pc = "Resolving" /\ ~pending /\ ~data.present
    /\ IF fetches < 2
       THEN /\ pending' = TRUE
            /\ fetches' = fetches + 1
            /\ UNCHANGED <<pc, phases, styleEl>>
       ELSE /\ styleEl' = showPrices(styleEl)
            /\ Enter("Visible")
            /\ UNCHANGED <<pending, fetches>>
    /\ UNCHANGED <<hasPricingContent, storage, storageAvailable, now, ticks, data,
                   cacheRead, discountPercent, prices, dom, banner>>
    /\ UNCHANGED <<fetchOutcome, schemaScripts, otherVars>>

\* variant: the no-data branch returns without showPrices()
NoDataReveal_return ==
    /\ pc = "Resolving" /\ ~pending /\ ~data.present
    /\ Enter("Returned")
    /\ UNCHANGED <<pending, hasPricingContent, styleEl, storage, storageAvailable, now,
                   ticks, data, cacheRead, fetches, discountPercent, prices, dom, banner>>
    /\ UNCHANGED <<fetchOutcome, schemaScripts, otherVars>>

\* init: no data, showPrices() and return
NoDataReveal ==
    /\ pc = "Resolving" /\ ~pending /\ ~data.present
    /\ styleEl' = showPrices(styleEl)
    /\ Enter("Visible")
    /\ UNCHANGED <<pending, hasPricingContent, storage, storageAvailable, now, ticks,
                   data, cacheRead, fetches, discountPercent, prices, dom, banner>>
    /\ UNCHANGED <<fetchOutcome, schemaScripts, otherVars>>

\* init: determine the discount percentage and calculatePrices()
Compute ==
    /\ pc = "Resolving" /\ ~pending /\ data.present
    /\ discountPercent' = determineDiscount(data)
    /\ prices' = calculatePrices(determineDiscount(data))
    /\ Enter("Computing")
    /\ UNCHANGED <<pending, hasPricingContent, styleEl, storage, storageAvailable, now,
                   ticks, data, cacheRead, fetches, dom, banner>>
    /\ UNCHANGED <<fetchOutcome, schemaScripts, otherVars>>

\* variant: showPrices() is called in place of updatePriceDisplay()
Render_revealFirst ==
    /\ pc = "Computing"
    /\ styleEl' = showPrices(styleEl)
    /\ Enter("Visible")
    /\ UNCHANGED <<pending, hasPricingContent, storage, storageAvailable, now, ticks,
                   data, cacheRead, fetches, discountPercent, prices, dom, banner>>
    /\ UNCHANGED <<fetchOutcome, schemaScripts, otherVars>>

\* init: updatePriceDisplay(prices, data)
Render ==
    /\ pc = "Computing"
    /\ dom' = updatePriceDisplay(prices, data, dom)
    /\ schemaScripts' = updateSchemaOrg(prices, schemaScripts)
    /\ banner' = initBanner(data, prices, banner)
    /\ Enter("Rendering")
    /\ UNCHANGED <<pending, hasPricingContent, styleEl, storage, storageAvailable, now,
                   ticks, data, cacheRead, fetches, discountPercent, prices>>
    /\ UNCHANGED <<fetchOutcome, otherVars>>

\* init: the final showPrices()
Reveal ==
    /\ pc = "Rendering"
    /\ styleEl' = showPrices(styleEl)
    /\ Enter("Visible")
    /\ UNCHANGED <<pending, hasPricingContent, storage, storageAvailable, now, ticks,
                   data, cacheRead, fetches, discountPercent, prices, dom, banner>>
    /\ UNCHANGED <<fetchOutcome, schemaScripts, otherVars>>

\* the visitor opens another page of the site in the same tab: a new
\* document and a new run of the script, the same sessionStorage
Navigate ==
    /\ pc \in {"Visible", "Skipped"}
    /\ pc' = "Idle"
    /\ phases' = <<"Idle">>
    /\ pending' = FALSE
    /\ hasPricingContent' \in BOOLEAN
    /\ styleEl' \in {"absent", "hidden"}
    /\ data' = NoData
    /\ cacheRead' = NoRead
    /\ fetches' = 0
    /\ discountPercent' = Num(0)
    /\ prices' = NoPrices
    /\ dom' = StaticDom
    /\ banner' = FALSE
    /\ fetchOutcome' = "none"
    /\ schemaScripts' \in PageSchemas
    /\ UNCHANGED <<storage, storageAvailable, now, ticks>>
    /\ UNCHANGED <<otherVars>>

\* time passes
TickSteps == {1, CACHE_DURATION_MS - 1}

Tick ==
    /\ ticks < MaxTicks
    /\ \E d \in TickSteps : now' = now + d
    /\ ticks' = ticks + 1
    /\ UNCHANGED <<pc, phases, pending, hasPricingContent, styleEl, storage,
                   storageAvailable, data, cacheRead, fetches, discountPercent, prices,
                   dom, banner>>
    /\ UNCHANGED <<fetchOutcome, schemaScripts, otherVars>>

Next ==
    \/ Start
    \/ CheckCache
    \/ FetchSettle
    \/ NoDataReveal
    \/ Compute
    \/ Render
    \/ Reveal
    \/ Navigate
    \/ Tick

Spec == Init /\ [][Next]_vars

\* every step of init is taken once enabled, and the request settles
LiveSpec ==
    /\ Spec
    /\ WF_vars(Start) /\ WF_vars(CheckCache) /\ WF_vars(FetchSettle)
    /\ WF_vars(NoDataReveal) /\ WF_vars(Compute) /\ WF_vars(Render) /\ WF_vars(Reveal)

(* ----------------- calculatePrices on its own (CalcSpec) --------------- *)
CalcInit ==
    /\ pc = "Calc"
    /\ phases = <<"Calc">>
    /\ pending = FALSE
    /\ hasPricingContent = TRUE
    /\ styleEl = "absent"
    /\ storage = EmptyStorage
    /\ storageAvailable = TRUE
    /\ now = 0
    /\ ticks = 0
    /\ data = NoData
    /\ cacheRead = NoRead
    /\ fetches = 0
    /\ discountPercent \in {Num(p) : p \in 0..(MaxPct * PctRes)}
    /\ prices = NoPrices
    /\ dom = StaticDom
    /\ banner = FALSE
    /\ fetchOutcome = "none"
    /\ schemaScripts = <<>>
    /\ OtherIdle

Calculate ==
    /\ pc = "Calc"
    /\ prices' = calculatePrices(discountPercent)
    /\ Enter("CalcDone")
    /\ UNCHANGED <<pending, hasPricingContent, styleEl, storage, storageAvailable, now,
                   ticks, data, cacheRead, fetches, discountPercent, dom, banner>>
    /\ UNCHANGED <<fetchOutcome, schemaScripts, otherVars>>

CalcNext == Calculate

CalcSpec == CalcInit /\ [][CalcNext]_vars

(* --------------- rendering of structured data (SchemaSpec) ------------- *)
\* responses with which the rendering of the JSON-LD blocks is explored
SchemaData ==
    {Response(Field("num", 50 * PctRes), <<FALSE, FALSE, FALSE>>),
     Response(Field("num", 0), <<FALSE, FALSE, FALSE>>),
     Response(Field("num", 50 * PctRes), <<TRUE, FALSE, FALSE>>)}

\* init has fetched a response and computed the prices; the document holds
\* any JSON-LD blocks
SchemaInit ==
    /\ pc = "Computing"
    /\ phases = <<"Idle", "Hiding", "Resolving", "Computing">>
    /\ pending = FALSE
    /\ hasPricingContent = TRUE
    /\ styleEl = "hidden"
    /\ data \in SchemaData
    /\ storage = cacheDiscountData(EmptyStorage, TRUE, data, 0)
    /\ storageAvailable = TRUE
    /\ now = 0
    /\ ticks = 0
    /\ cacheRead = getCachedDiscountData(EmptyStorage, TRUE, 0)
    /\ fetches = 1
    /\ discountPercent = determineDiscount(data)
    /\ prices = calculatePrices(determineDiscount(data))
    /\ dom = StaticDom
    /\ banner = FALSE
    /\ fetchOutcome = "ok"
    /\ schemaScripts \in SeqsUpTo(ScriptBlocks, MaxBlocks)
    /\ OtherIdle

SchemaNext ==
    \/ Render
    \/ Reveal

SchemaSpec == SchemaInit /\ [][SchemaNext]_vars

(* ------------------------ patchFile (PatchSpec) ------------------------ *)
\* the regional price renderer is not running
PriceIdle ==
    /\ pc = "off"
    /\ phases = <<>>
    /\ pending = FALSE
    /\ hasPricingContent = FALSE
    /\ styleEl = "absent"
    /\ storage = EmptyStorage
    /\ storageAvailable = TRUE
    /\ now = 0
    /\ ticks = 0
    /\ data = NoData
    /\ cacheRead = NoRead
    /\ fetches = 0
    /\ discountPercent = Num(0)
    /\ prices = NoPrices
    /\ dom = StaticDom
    /\ banner = FALSE
    /\ fetchOutcome = "none"
    /\ schemaScripts = <<>>

PatchInit ==
    /\ PriceIdle
    /\ CarIdle
    /\ fileExists \in BOOLEAN
    /\ fileHtml \in HtmlFiles
    /\ schemaFile \in SeqsUpTo(Schemas, MaxSchemas)
    /\ patchPc = "ready"
    /\ fileWrites = 0
    /\ patchResult = FALSE

\* one call patchFile(htmlPath, schemas)
PatchFileStep ==
    /\ patchPc = "ready"
    /\ LET r == patchFile(fileExists, fileHtml, schemaFile)
       IN  /\ fileHtml' = IF r.patched THEN r.html ELSE fileHtml
           /\ fileWrites' = IF r.patched THEN fileWrites + 1 ELSE fileWrites
           /\ patchResult' = r.patched
    /\ patchPc' = "done"
    /\ UNCHANGED <<fileExists, schemaFile>>
    /\ UNCHANGED <<priceVars, carVars>>

PatchNext == PatchFileStep

PatchSpec == PatchInit /\ [][PatchNext]_vars

(* --------------------------- carousel events ---------------------------- *)
carEnv == <<innerWidth, trackCards, gifCards, hasElements>>

\* the page has just evaluated carousel.js over a track of at most n cards
CarStart(n) ==
    /\ PriceIdle
    /\ PatchIdle
    /\ innerWidth \in Widths
    /\ trackCards \in 0..n
    /\ gifCards \in SUBSET (1..trackCards)
    /\ hasElements \in BOOLEAN
    /\ car = CarLoaded(innerWidth, trackCards)
    /\ hovered = 0
    /\ leftCards = {}
    /\ clicked = 0

\* DOMContentLoaded: init
InitCarousel ==
    /\ car.pc = "loading"
    /\ car' = IF hasElements THEN carInit(car, trackCards)
              ELSE [car EXCEPT !.pc = "missing"]
    /\ UNCHANGED <<carEnv, hovered, leftCards, clicked, priceVars, patchVars>>

\* a click on the previous button, which a disabled button does not deliver
ClickPrev ==
    /\ car.pc = "ready"
    /\ ~car.prevDisabled
    /\ car' = goToPrevPage(car)
    /\ UNCHANGED <<carEnv, hovered, leftCards, clicked, priceVars, patchVars>>

ClickNext ==
    /\ car.pc = "ready"
    /\ ~car.nextDisabled
    /\ car' = goToNextPage(car)
    /\ UNCHANGED <<carEnv, hovered, leftCards, clicked, priceVars, patchVars>>

\* keydown ArrowLeft / ArrowRight
KeyLeft ==
    /\ car.pc = "ready"
    /\ car' = goToPrevPage(car)
    /\ UNCHANGED <<carEnv, hovered, leftCards, clicked, priceVars, patchVars>>

KeyRight ==
    /\ car.pc = "ready"
    /\ car' = goToNextPage(car)
    /\ UNCHANGED <<carEnv, hovered, leftCards, clicked, priceVars, patchVars>>

\* the window is resized: the listener restarts the 250 ms debounce timer
Resize ==
    /\ car.pc \in {"loading", "ready", "missing"}
    /\ \E w \in Widths \ {innerWidth} : innerWidth' = w
    /\ car' = IF car.pc = "ready" THEN [car EXCEPT !.resizeTimeout = TRUE] ELSE car
    /\ UNCHANGED <<trackCards, gifCards, hasElements, hovered, leftCards, clicked,
                   priceVars, patchVars>>

\* the debounce timer fires: handleResize
ResizeFire ==
    /\ car.resizeTimeout
    /\ car' = handleResize([car EXCEPT !.resizeTimeout = FALSE], innerWidth, gifCards)
    /\ UNCHANGED <<carEnv, hovered, leftCards, clicked, priceVars, patchVars>>

\* the IntersectionObserver reports an entry for #demo
Intersect ==
    /\ car.pc = "ready"
    /\ \E isIntersecting \in BOOLEAN :
           car' = handleSectionVisibility(car, isIntersecting, innerWidth, gifCards)
    /\ UNCHANGED <<carEnv, hovered, leftCards, clicked, priceVars, patchVars>>

MouseEnter ==
    /\ car.pc = "ready"
    /\ hovered = 0
    /\ \E c \in 1..trackCards :
           /\ car.restartTimers[c] < MaxTimers
           /\ hovered' = c
           /\ leftCards' = leftCards \ {c}
           /\ car' = IF c \in gifCards THEN onMouseEnter(car, c) ELSE car
    /\ UNCHANGED <<carEnv, clicked, priceVars, patchVars>>

MouseLeave ==
    /\ car.pc = "ready"
    /\ hovered # 0
    /\ hovered' = 0
    /\ leftCards' = leftCards \cup {hovered}
    /\ car' = IF hovered \in gifCards THEN onMouseLeave(car, hovered) ELSE car
    /\ UNCHANGED <<carEnv, clicked, priceVars, patchVars>>

\* a 10 ms restart timer fires
RestartFire ==
    /\ \E c \in 1..trackCards :
           /\ car.restartTimers[c] > 0
           /\ car' = onRestartTimer(car, c)
    /\ UNCHANGED <<carEnv, hovered, leftCards, clicked, priceVars, patchVars>>

\* a click on the media of a card that has a GIF URL
ClickMedia ==
    /\ car.pc = "ready"
    /\ \E c \in gifCards :
           /\ car' = onMediaClick(car, c)
           /\ clicked' = c
    /\ UNCHANGED <<carEnv, hovered, leftCards, priceVars, patchVars>>

\* a click on the lightbox, Escape, or a scroll while the lightbox is active
CloseLightboxEvent ==
    /\ car.pc = "ready"
    /\ car.lightbox.active
    /\ car.clearTimers < MaxTimers
    /\ car' = closeLightbox(car)
    /\ UNCHANGED <<carEnv, hovered, leftCards, clicked, priceVars, patchVars>>

\* a 200 ms timer of closeLightbox fires
ClearFire ==
    /\ car.clearTimers > 0
    /\ car' = onClearTimer(car)
    /\ UNCHANGED <<carEnv, hovered, leftCards, clicked, priceVars, patchVars>>

\* paging alone
PageInit == CarStart(MaxCards)

PageNext ==
    \/ InitCarousel
    \/ ClickPrev
    \/ ClickNext
    \/ KeyLeft
    \/ KeyRight
    \/ Resize
    \/ ResizeFire
    \/ Intersect

PageSpec == PageInit /\ [][PageNext]_vars

\* every event of the carousel
CarouselInit == CarStart(MaxGifCards)

CarouselNext ==
    \/ PageNext
    \/ MouseEnter
    \/ MouseLeave
    \/ RestartFire
    \/ ClickMedia
    \/ CloseLightboxEvent
    \/ ClearFire

CarouselSpec == CarouselInit /\ [][CarouselNext]_vars

\* hovering alone, in a desktop window (no autoplay)
HoverInit == CarStart(MaxGifCards) /\ innerWidth > breakpoint

HoverNext ==
    \/ InitCarousel
    \/ Intersect
    \/ MouseEnter
    \/ MouseLeave
    \/ RestartFire

HoverSpec == HoverInit /\ [][HoverNext]_vars

(* ------------------------------ properties ----------------------------- *)
FullRun == <<"Idle", "Hiding", "Resolving", "Computing", "Rendering", "Visible">>
BaseRun == <<"Idle", "Hiding", "Resolving", "Visible">>

Flagged(d) == d.isVpn \/ d.isProxy \/ d.isTor

\* C1: once init has hidden the prices of a page load they are eventually
\* revealed, whatever the cache held and however the request settled.
HiddenLeadsToVisible ==
    (pc \in {"Hiding", "Resolving", "Computing", "Rendering"})
        ~> (pc = "Visible" /\ styleEl = "shown")

\* a page load revealed after a request that produced no data
RevealedAfterFailedFetch ==
    /\ pc = "Visible" /\ styleEl = "shown"
    /\ fetches = 1 /\ ~data.present

\* C2 as stated: every revealed page load, the one without discount data
\* included, went through Computing and Rendering before Visible.
RevealOnlyAfterRender ==
    pc = "Visible" => phases = FullRun

\* C2 amended: prices are shown only in phase Visible; a page load that
\* obtained discount data reaches it through Computing and Rendering with the
\* computed quote on display, a page load without data reaches it straight
\* from Resolving with the served prices untouched.
RevealOrder ==
    /\ styleEl = "shown" => pc = "Visible"
    /\ (pc = "Visible" /\ data.present) =>
          /\ phases = FullRun
          /\ prices = calculatePrices(discountPercent)
          /\ dom = updatePriceDisplay(prices, data, StaticDom)
    /\ (pc = "Visible" /\ ~data.present) =>
          /\ phases = BaseRun
          /\ prices = NoPrices
          /\ dom = StaticDom

\* a revealed page load whose response carried no discount
RevealedWithZeroDiscount ==
    /\ pc = "Visible" /\ data.present
    /\ phases = FullRun
    /\ discountPercent = Num(0) /\ ~Flagged(data)

\* C3: with both keys in sessionStorage, an entry younger than one hour is
\* used and no request is issued; an entry one hour old or older (exactly
\* one hour included) makes init issue a request.
CacheFreshness ==
    cacheRead.entry =>
        /\ ~cacheRead.age.nan
        /\ (cacheRead.age.v < CACHE_DURATION_MS) =>
              /\ fetches = 0 /\ ~pending
              /\ data.present
              /\ storage.parity_deals_discount = Item(JSONstringify(data))
        /\ (cacheRead.age.v >= CACHE_DURATION_MS) => fetches = 1

\* the cache was read when its entry was exactly one hour old
ReadAtExactlyOneHour ==
    /\ cacheRead.entry
    /\ cacheRead.age = Num(CACHE_DURATION_MS)
    /\ fetches = 1

\* C4: a response with isVpn, isProxy or isTor set is priced with discount
\* percentage 0, monthly price 19, whatever percentage it reports.
FlaggedGetsBasePrice ==
    (pc \in {"Computing", "Rendering", "Visible"} /\ data.present /\ Flagged(data)) =>
        /\ discountPercent = Num(0)
        /\ prices.discountPercent = Num(0)
        /\ prices.monthly = Num(BASE_PRICE_MONTHLY)
        /\ prices.monthlyCents = <<"0", "0">>

\* a Tor-flagged response reporting 50 % has been priced
TorWithDiscountPriced ==
    /\ pc = "Visible"
    /\ data.isTor /\ ~data.isVpn /\ ~data.isProxy
    /\ data.discountPercentage = Field("num", 50 * PctRes)

\* C5 as stated: after a page load whose response reports a non-zero
\* percentage and sets no flag, a banner is in the page.
BannerShownForDiscount ==
    (/\ pc = "Visible" /\ data.present /\ ~Flagged(data)
     /\ Truthy(data.discountPercentage)
     /\ parseFloat(data.discountPercentage) # Num(0)) => banner

\* C6: after a page load with effective discount 0 (percentage 0 or
\* missing, or a flagged visitor) or without discount data, no banner is in
\* the page.
NoBannerWithoutDiscount ==
    (pc = "Visible" /\ (~data.present \/ determineDiscount(data) = Num(0))) => ~banner

\* a VPN-flagged response reporting 50 % has been rendered and revealed
VpnWithDiscountRevealed ==
    /\ pc = "Visible"
    /\ data.isVpn
    /\ data.discountPercentage = Field("num", 50 * PctRes)
    /\ ~banner

\* C7: for p in [0,100] the annual integer part is floor(monthly(p) * 9.6)
\* with monthly(p) = 19 * (1 - p/100), and the annual cents are the rest of
\* monthly(p) * 9.6 in hundredths (rounded).
AnnualIsFloorOfMonthlyTimes96 ==
    (pc = "CalcDone" /\ discountPercent.v \in 0..(100 * PctRes)) =>
        LET thousandths == BASE_PRICE_MONTHLY * (100 * PctRes - discountPercent.v) * 96
            unit == 1000 * PctRes
            whole == thousandths \div unit
            rest == thousandths % unit
        IN  /\ prices.annual = Num(whole)
            /\ parseInt(prices.annualCents) = Num((200 * rest + unit) \div (2 * unit))

\* calculatePrices(30): 13.30 a month, 127.68 a year
ThirtyPercentQuoted ==
    /\ pc = "CalcDone"
    /\ discountPercent = Num(30 * PctRes)
    /\ prices.annual = Num(127)
    /\ prices.annualCents = <<"6", "8">>

\* C8 as stated: at 50 % the monthly price is $9 and the annual price is
\* floor(9 * 9.6) = $86.
FiftyPercentIs9And86 ==
    (pc = "CalcDone" /\ discountPercent = Num(50 * PctRes)) =>
        /\ prices.monthly = Num(9)
        /\ prices.annual = Num(86)

\* C8 amended: at 50 % the monthly price is $9.50 and the annual price is
\* 9.5 * 9.6 = $91.20.
FiftyPercentIs950And9120 ==
    (pc = "CalcDone" /\ discountPercent = Num(50 * PctRes)) =>
        /\ prices.monthly = Num(9) /\ prices.monthlyCents = <<"5", "0">>
        /\ prices.annual = Num(91) /\ prices.annualCents = <<"2", "0">>

\* calculatePrices(50) has been evaluated
FiftyPercentQuoted ==
    /\ pc = "CalcDone"
    /\ discountPercent = Num(50 * PctRes)
    /\ prices # NoPrices

\* C9 as stated: for every p in [0,100], fractions included, both cents
\* fields are two decimal digits.
CentsAreTwoDigits ==
    (pc = "CalcDone" /\ discountPercent.v \in 0..(100 * PctRes)) =>
        /\ Len(prices.monthlyCents) = 2
        /\ Len(prices.annualCents) = 2
        /\ \A i \in 1..2 : prices.monthlyCents[i] \in Digits /\ prices.annualCents[i] \in Digits

\* C10 as stated: after a request that failed or answered a malformed
\* payload the page is visible and the prices on display are numbers between
\* 0 and the base price.
FetchedPricesWithinBase ==
    (pc = "Visible" /\ fetches = 1) =>
        /\ styleEl = "shown"
        /\ ~data.present => dom = StaticDom
        /\ data.present =>
              /\ ~prices.monthly.nan /\ ~prices.annual.nan
              /\ prices.monthly.v \in 0..BASE_PRICE_MONTHLY
              /\ prices.annual.v \in 0..((BASE_PRICE_MONTHLY * 12 * ANNUAL_DISCOUNT) \div 10)

FetchFailures == {"networkError", "badStatus", "badBody"}

\* C11: on a network error, a non-success status and an unparsable body
\* fetchParityDealsDiscount gives null and the page load goes on the same way:
\* nothing is written to sessionStorage and no price element is rewritten.
FailedFetchLeavesNoTrace ==
    [][(fetchOutcome' \in FetchFailures) =>
          /\ ~data'.present
          /\ storage' = storage
          /\ prices' = NoPrices
          /\ dom' = StaticDom
          /\ schemaScripts' = schemaScripts
          /\ pc' \in {"Resolving", "Visible"}]_vars

\* a page load revealed after an answer whose body was not JSON
RevealedAfterBadBody ==
    /\ pc = "Visible"
    /\ fetchOutcome = "badBody"
    /\ dom = StaticDom
    /\ storage = EmptyStorage

\* C12: with sessionStorage working, once the request has given a response
\* the two keys hold that response and the time of the write, a page load
\* reading them less than an hour later issues no request, and nothing else
\* ever writes the cache.
CacheWrittenOnResponse ==
    [][/\ (pending /\ ~pending' /\ data'.present /\ storageAvailable) =>
             /\ storage'.parity_deals_discount.has
             /\ JSONparse(storage'.parity_deals_discount.s) = [ok |-> TRUE, value |-> data']
             /\ storage'.parity_deals_timestamp.has
             /\ parseInt(storage'.parity_deals_timestamp.s) = Num(now)
       /\ (storage' # storage) => (pending /\ data'.present /\ fetchOutcome' = "ok")
       /\ (/\ pc = "Hiding" /\ pc' # "Hiding"
           /\ storage.parity_deals_discount.has
           /\ now - parseInt(storage.parity_deals_timestamp.s).v < CACHE_DURATION_MS) =>
             /\ fetches' = fetches /\ ~pending'
             /\ data' = JSONparse(storage.parity_deals_discount.s).value]_vars

\* a later page load served from the cache one millisecond before expiry
CacheHitJustBeforeExpiry ==
    /\ pc = "Visible"
    /\ fetches = 0 /\ data.present
    /\ cacheRead.entry /\ cacheRead.age = Num(CACHE_DURATION_MS - 1)

\* C13: when every sessionStorage access throws, a page load raises no
\* error, issues exactly one request and computes, renders and reveals as it
\* does with an empty cache.
StorageUnavailableAlwaysFetches ==
    ~storageAvailable =>
        /\ pc # "Failed"
        /\ storage = EmptyStorage
        /\ (pc \in {"Resolving", "Computing", "Rendering", "Visible"}) =>
              /\ fetches = 1
              /\ cacheRead = getCachedDiscountData(EmptyStorage, TRUE, now)
        /\ (pc = "Visible") =>
              /\ styleEl = "shown"
              /\ fetchOutcome # "none"
              /\ data.present =>
                    /\ prices = calculatePrices(determineDiscount(data))
                    /\ dom = updatePriceDisplay(prices, data, StaticDom)
              /\ ~data.present => dom = StaticDom

\* a page load with a response revealed while sessionStorage throws
RevealedWithoutStorage ==
    /\ ~storageAvailable
    /\ pc = "Visible"
    /\ data.present /\ fetches = 1

\* C14: a page load issues at most one request: none on a cache hit, and a
\* request that failed is not repeated.
AtMostOneRequest ==
    /\ fetches \in {0, 1}
    /\ cacheRead.value.present => (fetches = 0 /\ fetchOutcome = "none")
    /\ (fetchOutcome # "none") => (fetches = 1 /\ ~pending)

\* a page load whose only request ended in a network error
OneRequestAfterNetworkError ==
    /\ pc = "Visible"
    /\ fetchOutcome = "networkError"
    /\ fetches = 1 /\ ~pending

RenderStep == pc = "Computing" /\ pc' = "Rendering"

\* C15 as stated: in each block that parses and has an offers array every
\* offer naming "Monthly" gets the monthly price and every offer naming
\* "Yearly" the annual price; a block that does not parse stays as it is and
\* stops neither the other blocks nor the reveal.
OfferPricesFollowNames ==
    [][/\ RenderStep =>
             /\ Len(schemaScripts') = Len(schemaScripts)
             /\ \A i \in 1..Len(schemaScripts) :
                   LET old == schemaScripts[i]
                       new == schemaScripts'[i]
                   IN  /\ ~old.parses => new = old
                       /\ (old.parses /\ old.hasOffers) =>
                             /\ Len(new.offers) = Len(old.offers)
                             /\ \A j \in 1..Len(old.offers) :
                                   /\ Includes(old.offers[j].name, "Monthly") =>
                                         new.offers[j].price = toString(prices.monthly)
                                   /\ Includes(old.offers[j].name, "Yearly") =>
                                         new.offers[j].price = toString(prices.annual)
       /\ (pc = "Rendering" /\ pc' # pc) => (pc' = "Visible" /\ styleEl' = "shown")]_vars

\* C15 amended: every offer naming "Monthly" gets the monthly price, every
\* offer naming "Yearly" and not "Monthly" the annual price, every other offer
\* and every block without such an offer stays as it is; a block that does not
\* parse stays as it is and stops neither the other blocks nor the reveal.
OfferPricesFollowFirstName ==
    [][/\ RenderStep =>
             /\ Len(schemaScripts') = Len(schemaScripts)
             /\ \A i \in 1..Len(schemaScripts) :
                   LET old == schemaScripts[i]
                       new == schemaScripts'[i]
                   IN  /\ (~old.parses \/ ~old.hasOffers) => new = old
                       /\ (old.parses /\ old.hasOffers) =>
                             /\ Len(new.offers) = Len(old.offers)
                             /\ \A j \in 1..Len(old.offers) :
                                   LET name == old.offers[j].name
                                   IN  /\ new.offers[j].name = name
                                       /\ new.offers[j].price =
                                             IF Includes(name, "Monthly")
                                             THEN toString(prices.monthly)
                                             ELSE IF Includes(name, "Yearly")
                                             THEN toString(prices.annual)
                                             ELSE old.offers[j].price
       /\ (pc = "Rendering" /\ pc' # pc) =>
             (pc' = "Visible" /\ styleEl' = "shown" /\ schemaScripts' = schemaScripts)]_vars

\* prices revealed in a document whose first block does not parse and whose
\* second block had its offers rewritten
RevealedPastBrokenBlock ==
    /\ pc = "Visible"
    /\ Len(schemaScripts) = 2
    /\ ~schemaScripts[1].parses
    /\ schemaScripts[2].text = "stringified"
    /\ \E j \in 1..Len(schemaScripts[2].offers) :
          /\ Includes(schemaScripts[2].offers[j].name, "Yearly")
          /\ schemaScripts[2].offers[j].price = toString(prices.annual)

\* the text between the JSON-LD blocks of an HTML file, in order
RECURSIVE GapsFrom(_, _)
GapsFrom(html, from) ==
    LET open == IndexOf(html, OpenTag, from)
        close == IF open = 0 THEN 0 ELSE IndexOf(html, CloseTag, open + 1)
    IN  IF open = 0 \/ close = 0 THEN <<SubSeq(html, from, Len(html))>>
        ELSE <<SubSeq(html, from, open - 1)>> \o GapsFrom(html, close + 1)

ButtonsFollowPosition ==
    car.pc = "ready" =>
        /\ car.prevDisabled <=> (car.state.currentIndex = 0)
        /\ car.nextDisabled <=> (car.state.currentIndex = car.state.totalPages - 1)
        /\ ~car.prevDisabled =>
               goToPrevPage(car).state.currentIndex = car.state.currentIndex - 1
        /\ ~car.nextDisabled =>
               goToNextPage(car).state.currentIndex = car.state.currentIndex + 1

TotalPagesIsCeil ==
    car.state.totalPages = MathCeil(car.state.totalCards, car.state.cardsPerView)

\* a step in which the debounce timer fires and handleResize runs
HandledResize == car.resizeTimeout /\ ~car'.resizeTimeout

ResizeResetsOrKeeps ==
    HandledResize =>
        IF cardsPerViewFor(innerWidth) # car.state.cardsPerView
        THEN car'.state.currentIndex = 0
        ELSE /\ car'.state.currentIndex = car.state.currentIndex
             /\ car'.state.totalPages = car.state.totalPages

\* C18 as stated: once init has run, with any number of cards,
\* 0 <= currentIndex <= totalPages - 1 and totalPages is
\* ceil(totalCards / cardsPerView); a handled resize that changes
\* cardsPerView resets currentIndex to 0, any other leaves currentIndex and
\* totalPages as they are.
IndexWithinPages ==
    /\ [](car.pc = "ready" =>
            /\ 0 <= car.state.currentIndex
            /\ car.state.currentIndex <= car.state.totalPages - 1
            /\ TotalPagesIsCeil)
    /\ [][ResizeResetsOrKeeps]_vars

\* C18, amended: the same, with currentIndex = 0 and totalPages = 0 for an
\* empty track and 0 <= currentIndex <= totalPages - 1 for any other.
IndexWithinPagesOrEmpty ==
    /\ [](car.pc = "ready" =>
            /\ 0 <= car.state.currentIndex
            /\ IF car.state.totalCards = 0
               THEN car.state.currentIndex = 0 /\ car.state.totalPages = 0
               ELSE car.state.currentIndex <= car.state.totalPages - 1
            /\ TotalPagesIsCeil)
    /\ [][ResizeResetsOrKeeps]_vars

\* card 2 alone was played on the second mobile page, and a handled resize
\* to the desktop layout has put the carousel back on page 0
ResizedToDesktop ==
    /\ car.pc = "ready"
    /\ car.state.totalCards >= 3
    /\ gifCards = 1..trackCards
    /\ car.state.loadedGifs = {2}
    /\ car.state.cardsPerView = cardsPerViewDesktop
    /\ car.state.currentIndex = 0
    /\ car.prevDisabled

GifsUntouched ==
    /\ car.state.loadedGifs = {}
    /\ \A c \in 1..trackCards : car.gifSrc[c] = 0 /\ car.restartTimers[c] = 0
    /\ ~car.lightbox.active
    /\ car.lightbox.src = 0

\* C19: while the demo section has not been reported as intersecting, no
\* GIF source is assigned, loadedGifs is empty and the lightbox is not
\* opened; sectionVisible, once true, stays true.
NoGifBeforeSectionVisible ==
    /\ [](~car.state.sectionVisible => GifsUntouched)
    /\ [][car.state.sectionVisible => car'.state.sectionVisible]_vars

\* a GIF card of the second page is hovered, after another card was left,
\* in a section that was never reported as intersecting
HoveredBeforeSectionVisible ==
    /\ car.pc = "ready"
    /\ ~car.state.sectionVisible
    /\ car.state.currentIndex = 1
    /\ hovered \in gifCards
    /\ leftCards \cap gifCards # {}

\* C20: a GIF card the mouse has left and not entered again shows its still
\* image (GIF opacity 0, still opacity 1), whatever timers fire afterwards.
StillShownAfterMouseLeave ==
    \A c \in gifCards \cap leftCards :
        car.gifOpacity[c] = "0" /\ car.stillOpacity[c] = "1"

\* C21: while the lightbox is active its image source is the GIF URL of the
\* card clicked last and the page's scrolling is locked, also when it was
\* reopened before the clear timer of the preceding close has fired.
ActiveLightboxShowsClickedGif ==
    car.lightbox.active =>
        /\ clicked # 0
        /\ car.lightbox.src = clicked
        /\ car.bodyOverflow = "hidden"

====
